---- MODULE Spec2Model ----
(***************************************************************************)
(* Model of skfuzzy/control/controlsystem.py: the ControlSystem graph, the *)
(* RuleOrderGenerator, and ControlSystemSimulation contexts evaluating the *)
(* shared network.                                                         *)
(***************************************************************************)
EXTENDS Integers, Sequences, FiniteSets, TLC

(***************************************************************************)
(* The authored network elements (variables, terms, rules) the operations  *)
(* are exercised with.  Membership values are fixed-point numbers:         *)
(* the integer m stands for m / Scale.                                     *)
(***************************************************************************)
Scale == 4

Antecedents == {"temp", "serv"}
Consequents == {"qual", "tip"}
FuzzyVars == Antecedents \cup Consequents

\* FuzzyVariable.terms: an OrderedDict label -> Term, per variable
VarTerms ==
    [temp |-> <<"temp.cold", "temp.hot">>,
     serv |-> <<"serv.poor", "serv.good">>,
     qual |-> <<"qual.fine">>,
     tip  |-> <<"tip.low", "tip.high">>]

Range(s) == {s[i] : i \in DOMAIN s}

Terms == UNION {Range(VarTerms[v]) : v \in FuzzyVars}

\* Term.parent
Parent(t) == CHOOSE v \in FuzzyVars : t \in Range(VarTerms[v])

\* The Rule objects that callers hold.  R5 carries the same label as R1.
Rules == {"R1", "R2", "R3", "R4", "R5", "R6"}

Leaf(t)   == [op |-> "term", args |-> <<t>>]
And(t, u) == [op |-> "and",  args |-> <<t, u>>]
Or(t, u)  == [op |-> "or",   args |-> <<t, u>>]
Not(t)    == [op |-> "not",  args |-> <<t>>]

WT(t, w) == [term |-> t, weight |-> w]

RuleDef ==
    [R1 |-> [label |-> "r1", antecedent |-> Leaf("temp.hot"),
             consequent |-> <<WT("qual.fine", Scale)>>],
     R2 |-> [label |-> "r2", antecedent |-> Leaf("qual.fine"),
             consequent |-> <<WT("tip.high", Scale)>>],
     R3 |-> [label |-> "r3", antecedent |-> Leaf("serv.good"),
             consequent |-> <<WT("qual.fine", Scale \div 2)>>],
     R4 |-> [label |-> "r4", antecedent |-> Leaf("tip.high"),
             consequent |-> <<WT("qual.fine", Scale)>>],
     R5 |-> [label |-> "r1", antecedent |-> Or("temp.cold", "serv.poor"),
             consequent |-> <<WT("tip.low", Scale)>>],
     R6 |-> [label |-> "r6", antecedent |-> And("temp.hot", "serv.good"),
             consequent |-> <<WT("tip.high", Scale), WT("tip.low", Scale \div 2)>>]]

\* Rule.antecedent_terms: the leaves of the antecedent expression tree
AntecedentTerms(r) == Range(RuleDef[r].antecedent.args)

\* the terms of Rule.consequent
ConsequentTerms(r) ==
    {RuleDef[r].consequent[i].term : i \in DOMAIN RuleDef[r].consequent}

(***************************************************************************)
(* Graphs.  A networkx DiGraph is a record of its nodes, in insertion      *)
(* order, and its set of edges; a graph held by the ControlSystem also     *)
(* carries the identity of the Python object (id), because the rule order  *)
(* cache compares graphs with "is".                                        *)
(***************************************************************************)
SeqMinus(s, S) == SelectSeq(s, LAMBDA x : x \notin S)

\* nx.compose(G, H): G's nodes, then H's new ones; the union of the edges
Compose(G, H) ==
    [nodes |-> G.nodes \o SeqMinus(H.nodes, Range(G.nodes)),
     edges |-> G.edges \cup H.edges]

EmptyGraph == [nodes |-> <<>>, edges |-> {}]

\* G.predecessors(n)
Predecessors(G, n) == {e[1] : e \in {d \in G.edges : d[2] = n}}

\* Antecedent.graph / Consequent.graph restricted to one term: an Antecedent
\* points to its term, a term of a Consequent points to its variable
TermGraph(t) ==
    IF Parent(t) \in Antecedents
      THEN [nodes |-> <<Parent(t), t>>, edges |-> {<<Parent(t), t>>}]
      ELSE [nodes |-> <<t, Parent(t)>>, edges |-> {<<t, Parent(t)>>}]

RECURSIVE ComposeAll(_)
ComposeAll(gs) ==
    IF gs = <<>> THEN EmptyGraph
    ELSE Compose(gs[1], ComposeAll(Tail(gs)))

\* Rule.graph: every antecedent leaf term -> rule, rule -> every consequent
\* term, together with the terms' variables
RuleGraph(r) ==
    LET ante == RuleDef[r].antecedent.args
        cons == RuleDef[r].consequent
        ag   == [i \in DOMAIN ante |->
                   Compose([nodes |-> <<ante[i], r>>, edges |-> {<<ante[i], r>>}],
                           TermGraph(ante[i]))]
        cg   == [i \in DOMAIN cons |->
                   Compose([nodes |-> <<r, cons[i].term>>,
                            edges |-> {<<r, cons[i].term>>}],
                           TermGraph(cons[i].term))]
    IN  ComposeAll(ag \o cg)

\* ControlSystem.antecedents / consequents: graph nodes by type, in node order
GraphAntecedents(G) == SelectSeq(G.nodes, LAMBDA n : n \in Antecedents)
GraphConsequents(G) == SelectSeq(G.nodes, LAMBDA n : n \in Consequents)
GraphRules(G)       == SelectSeq(G.nodes, LAMBDA n : n \in Rules)

(***************************************************************************)
(* State.                                                                  *)
(***************************************************************************)
VARIABLES
    nxLegacy,   \* the installed networkx is 1.x (predecessors() is a list)
    graph,      \* ControlSystem.graph, with the identity of the object
    gen,        \* RuleOrderGenerator: _cache and _cached_graph
    result,     \* what the last call did: its outcome and what it returned
    input,      \* Antecedent.input: antecedent -> key -> value
    mv,         \* Term.membership_value: term -> simulation -> value
    cuts,       \* Term.cuts: term -> simulation -> rule label -> value
    cut,        \* Term._cut: term -> value
    firing,     \* Rule.aggregate_firing: rule -> simulation -> value
    act,        \* WeightedTerm.activation: (rule, i) -> simulation -> value
    out,        \* Consequent.output: consequent -> simulation -> value
    agg,        \* rule.antecedent.agg_methods has been assigned by compute_rule
    sim,        \* the ControlSystemSimulation objects' own fields
    pc,         \* where each simulation's compute() stands
    ops,        \* the number of calls made so far
    memo        \* history: fingerprint and outputs of the full runs of a
                \* simulation since its state was last evicted

netVars == <<nxLegacy, graph, gen>>

NoGraph == 0    \* RuleOrderGenerator._cached_graph = None

\* the number of graph objects a run creates at most
MaxGraphs == 5

\* the number of calls on the simulations a run makes at most
MaxOps == 3

\* the largest flush_after_run a simulation is created with
MaxFlush == 2

\* flush_after_run when the caller gives none
DefaultFlush == 1000

(***************************************************************************)
(* RuleOrderGenerator                                                      *)
(***************************************************************************)
\* _init_state: the calculated graph starts as every Antecedent of the
\* network with all of its terms
InitCalced(G) ==
    LET es == UNION {{<<a, t>> : t \in Range(VarTerms[a])} :
                        a \in Range(GraphAntecedents(G))}
    IN  [nodes |-> {e[1] : e \in es} \cup {e[2] : e \in es}, edges |-> es]

\* the size in bytes of a dict key iterator, whatever it iterates over
IteratorSizeof == 56

\* the "degree" _can_calc_rule compares: len(predecessors(p)) where that is a
\* list, predecessors(p).__sizeof__() where it is an iterator
PredDegree(legacy, G, p) ==
    IF legacy THEN Cardinality(Predecessors(G, p)) ELSE IteratorSizeof

\* _can_calc_rule
CanCalcRule(legacy, allGraph, calced, rule) ==
    \A p \in Predecessors(allGraph, rule) :
        /\ p \in calced.nodes
        /\ PredDegree(legacy, allGraph, p) = PredDegree(legacy, calced, p)

\* the calculated graph after composing a scheduled rule's graph into it
WithGraph(calced, H) ==
    [nodes |-> calced.nodes \cup Range(H.nodes),
     edges |-> calced.edges \cup H.edges]

AddCalced(calced, rule) == WithGraph(calced, RuleGraph(rule))

\* ScanRules leaving a rule it has yielded among the rules to scan again
RECURSIVE ScanRulesKeepsYielded(_, _, _, _, _, _)
ScanRulesKeepsYielded(legacy, allGraph, rules, calced, yielded, skipped) ==
    IF rules = <<>>
      THEN [calced |-> calced, yielded |-> yielded, skipped |-> skipped]
    ELSE IF CanCalcRule(legacy, allGraph, calced, Head(rules))
      THEN ScanRulesKeepsYielded(legacy, allGraph, Tail(rules),
                                 AddCalced(calced, Head(rules)),
                                 Append(yielded, Head(rules)),
                                 Append(skipped, Head(rules)))
      ELSE ScanRulesKeepsYielded(legacy, allGraph, Tail(rules), calced, yielded,
                                 Append(skipped, Head(rules)))

\* the while loop of _process_rules: one scan over the rules
RECURSIVE ScanRules(_, _, _, _, _, _)
ScanRules(legacy, allGraph, rules, calced, yielded, skipped) ==
    IF rules = <<>>
      THEN [calced |-> calced, yielded |-> yielded, skipped |-> skipped]
    ELSE IF CanCalcRule(legacy, allGraph, calced, Head(rules))
      THEN ScanRules(legacy, allGraph, Tail(rules),
                     AddCalced(calced, Head(rules)),
                     Append(yielded, Head(rules)), skipped)
      ELSE ScanRules(legacy, allGraph, Tail(rules), calced, yielded,
                     Append(skipped, Head(rules)))

\* AfterScan without the rules yielded before the recursive call
AfterScanForgetsYielded(rules, scan, rest) ==
    IF scan.skipped = <<>>
      THEN [ok |-> TRUE, seq |-> scan.yielded, left |-> <<>>]
    ELSE IF Len(scan.skipped) = Len(rules)
      THEN [ok |-> FALSE, seq |-> <<>>, left |-> scan.skipped]
    ELSE [ok |-> rest.ok, seq |-> rest.seq, left |-> rest.left]

\* AfterScan ending quietly when a scan has scheduled nothing
AfterScanNoLoopGuard(rules, scan, rest) ==
    IF scan.skipped = <<>> \/ Len(scan.skipped) = Len(rules)
      THEN [ok |-> TRUE, seq |-> scan.yielded, left |-> scan.skipped]
    ELSE [ok |-> rest.ok,
          seq |-> IF rest.ok THEN scan.yielded \o rest.seq ELSE <<>>,
          left |-> rest.left]

\* what _process_rules does once a scan is over, given what the recursive
\* call on the skipped rules gives
AfterScan(rules, scan, rest) ==
    IF scan.skipped = <<>>
      THEN [ok |-> TRUE, seq |-> scan.yielded, left |-> <<>>]
    ELSE IF Len(scan.skipped) = Len(rules)
      THEN [ok |-> FALSE, seq |-> <<>>, left |-> scan.skipped]
    ELSE [ok |-> rest.ok,
          seq |-> IF rest.ok THEN scan.yielded \o rest.seq ELSE <<>>,
          left |-> rest.left]

\* list(_process_rules(rules)): the rules in firing order, or the failure
\* (RuntimeError "Unable to resolve rule execution order") with the rules
\* left unscheduled
RECURSIVE ProcessRules(_, _, _, _)

\* the recursive call of _process_rules on the rules a scan has skipped,
\* made when the scan has scheduled some rules and skipped others
ProcessSkipped(legacy, allGraph, rules, scan) ==
    IF scan.skipped = <<>> \/ Len(scan.skipped) = Len(rules)
      THEN [ok |-> TRUE, seq |-> <<>>, left |-> <<>>]
      ELSE ProcessRules(legacy, allGraph, scan.skipped, scan.calced)

\* _process_rules once its while loop has given scan
ProcessScan(legacy, allGraph, rules, scan) ==
    AfterScan(rules, scan, ProcessSkipped(legacy, allGraph, rules, scan))

ProcessRules(legacy, allGraph, rules, calced) ==
    ProcessScan(legacy, allGraph, rules,
                ScanRules(legacy, allGraph, rules, calced, <<>>, <<>>))

\* the first part of __iter__: the order the rules are yielded in for graph
\* G, and the generator afterwards
\* "self._cache = list(...); self._cached_graph = self.control_system.graph"
\* when _process_rules has given pr; a failure leaves the generator as it is
Recomputed(g, G, pr) ==
    IF pr.ok
      THEN [ok |-> TRUE, seq |-> pr.seq, left |-> <<>>,
            gen |-> [cache |-> pr.seq, cached_graph |-> G.id]]
      ELSE [ok |-> FALSE, seq |-> <<>>, left |-> pr.left, gen |-> g]

\* __iter__ keeping the first order it computed, whatever graph it is for
RuleOrderKeepsCache(legacy, g, G) ==
    IF g.cached_graph = NoGraph
      THEN Recomputed(g, G, ProcessRules(legacy, G, GraphRules(G), InitCalced(G)))
      ELSE [ok |-> TRUE, seq |-> g.cache, left |-> <<>>, gen |-> g]

RuleOrder(legacy, g, G) ==
    IF g.cached_graph # G.id
      THEN Recomputed(g, G, ProcessRules(legacy, G, GraphRules(G), InitCalced(G)))
      ELSE [ok |-> TRUE, seq |-> g.cache, left |-> <<>>, gen |-> g]

(***************************************************************************)
(* ControlSystem                                                           *)
(***************************************************************************)
Labels(rs) == [i \in DOMAIN rs |-> RuleDef[rs[i]].label]

\* the label loop of addrule raises when it meets a label it has seen
HasDuplicate(ls) == \E i, j \in DOMAIN ls : i < j /\ ls[i] = ls[j]

\* nx.compose(self.graph, rule.graph) is a new graph object
NewObject(G, C) == [id |-> G.id + 1, nodes |-> C.nodes, edges |-> C.edges]

Merged(G, r) == NewObject(G, Compose(G, RuleGraph(r)))

\* AddruleAfter composing the graphs before it looks at the labels
AddruleMergesFirst(it, G, r) ==
    IF ~it.ok
      THEN [outcome |-> "CyclicDependencyError", graph |-> G, gen |-> it.gen]
    ELSE IF HasDuplicate(Labels(it.seq))
      THEN [outcome |-> "DuplicateLabelError", graph |-> Merged(G, r),
            gen |-> it.gen]
    ELSE [outcome |-> "ok", graph |-> Merged(G, r), gen |-> it.gen]

\* addrule(rule) for a Rule object once "for r in self.rules" has run the
\* generator and got it: the outcome, and the graph and the generator left.
\* The generator's failure surfaces here; the loop compares the labels of
\* the rules already in the network with one another.
AddruleAfter(it, G, r) ==
    IF ~it.ok
      THEN [outcome |-> "CyclicDependencyError", graph |-> G, gen |-> it.gen]
    ELSE IF HasDuplicate(Labels(it.seq))
      THEN [outcome |-> "DuplicateLabelError", graph |-> G, gen |-> it.gen]
    ELSE [outcome |-> "ok", graph |-> Merged(G, r), gen |-> it.gen]

\* addrule(rule) for a Rule object
Addrule(legacy, g, G, r) == AddruleAfter(RuleOrder(legacy, g, G), G, r)

(***************************************************************************)
(* Values.  An input, a membership value or an output is None, a number,   *)
(* an array of numbers or (inputs only) a term label.                      *)
(***************************************************************************)
None    == [k |-> "none", v |-> <<>>, l |-> ""]
Num(x)  == [k |-> "num", v |-> <<x>>, l |-> ""]
Arr(xs) == [k |-> "arr", v |-> xs, l |-> ""]
Lab(l)  == [k |-> "label", v |-> <<>>, l |-> l]
FalseV  == [k |-> "false", v |-> <<>>, l |-> ""]

\* the number a numeric value holds
NumOf(a) == a.v[1]

Min2(a, b) == IF a <= b THEN a ELSE b
Max2(a, b) == IF a >= b THEN a ELSE b

\* a numpy ufunc of one argument applied to a number or an array
Map1(F(_), a) ==
    IF a.k = "num" THEN Num(F(NumOf(a)))
    ELSE IF a.k = "arr" THEN Arr([i \in DOMAIN a.v |-> F(a.v[i])])
    ELSE None

\* a numpy ufunc of two arguments, with broadcasting of a number over an
\* array; None stands for an operand the ufunc cannot take
Map2(F(_, _), a, b) ==
    IF a.k = "num" /\ b.k = "num" THEN Num(F(NumOf(a), NumOf(b)))
    ELSE IF a.k = "arr" /\ b.k = "num"
      THEN Arr([i \in DOMAIN a.v |-> F(a.v[i], NumOf(b))])
    ELSE IF a.k = "num" /\ b.k = "arr"
      THEN Arr([i \in DOMAIN b.v |-> F(NumOf(a), b.v[i])])
    ELSE IF a.k = "arr" /\ b.k = "arr" /\ Len(a.v) = Len(b.v)
      THEN Arr([i \in DOMAIN a.v |-> F(a.v[i], b.v[i])])
    ELSE None

(***************************************************************************)
(* The variables' universes and the terms' sampled membership functions    *)
(***************************************************************************)
Universe == [temp |-> 1..3, serv |-> 0..2, qual |-> 0..2, tip |-> 0..2]

UMin(v) == CHOOSE x \in Universe[v] : \A y \in Universe[v] : x <= y
UMax(v) == CHOOSE x \in Universe[v] : \A y \in Universe[v] : x >= y

TermLabel ==
    ("temp.cold" :> "cold") @@ ("temp.hot" :> "hot") @@
    ("serv.poor" :> "poor") @@ ("serv.good" :> "good") @@
    ("qual.fine" :> "fine") @@ ("tip.low" :> "low") @@ ("tip.high" :> "high")

\* Term.mf over the universe of the term's variable
Mf ==
    ("temp.cold" :> (1 :> Scale @@ 2 :> Scale \div 2 @@ 3 :> 0)) @@
    ("temp.hot"  :> (1 :> 0 @@ 2 :> Scale \div 2 @@ 3 :> Scale)) @@
    ("serv.poor" :> (0 :> Scale @@ 1 :> Scale \div 2 @@ 2 :> 0)) @@
    ("serv.good" :> (0 :> 0 @@ 1 :> Scale \div 2 @@ 2 :> Scale)) @@
    ("qual.fine" :> (0 :> 0 @@ 1 :> Scale @@ 2 :> 0)) @@
    ("tip.low"   :> (0 :> Scale @@ 1 :> Scale \div 2 @@ 2 :> 0)) @@
    ("tip.high"  :> (0 :> 0 @@ 1 :> Scale \div 2 @@ 2 :> Scale))

\* interp_membership(universe, mf, x) at a sample point x of the universe;
\* outside the universe the interpolation keeps the end value
InterpMembership(t, x) ==
    IF x \in DOMAIN Mf[t] THEN Mf[t][x]
    ELSE IF x < UMin(Parent(t)) THEN Mf[t][UMin(Parent(t))]
    ELSE Mf[t][UMax(Parent(t))]

(***************************************************************************)
(* Simulation state.  The per-simulation values live in mappings stored on *)
(* the network's nodes (Antecedent.input, Term.membership_value, ...),     *)
(* keyed by the simulation object; Antecedent.input also has the key       *)
(* 'current'.  A mapping is a function that gives None for a missing key.  *)
(***************************************************************************)
Sims == {"s1", "s2"}
Keys == Sims \cup {"current"}

RuleLabels == {RuleDef[r].label : r \in Rules}

\* the WeightedTerm objects: the i-th consequent of rule r
WeightedTerms == UNION {{<<r, i>> : i \in DOMAIN RuleDef[r].consequent} : r \in Rules}

\* an empty mapping, and what mapping.clear() leaves
Cleared     == [k \in Keys |-> None]
ClearedCuts == [k \in Keys |-> [l \in RuleLabels |-> None]]

\* the mutable state the simulations work on, as one record
World ==
    [input |-> input, mv |-> mv, cuts |-> cuts, cut |-> cut, firing |-> firing,
     act |-> act, out |-> out, agg |-> agg, sim |-> sim, gen |-> gen,
     exc |-> "none"]

SetWorld(W) ==
    /\ input' = W.input /\ mv' = W.mv /\ cuts' = W.cuts /\ cut' = W.cut
    /\ firing' = W.firing /\ act' = W.act /\ out' = W.out /\ agg' = W.agg
    /\ sim' = W.sim /\ gen' = W.gen

simVars == <<input, mv, cuts, cut, firing, act, out, agg, sim, pc, memo>>

\* the network's variables, rules and terms, in node order
NetAntecedents == GraphAntecedents(graph)
NetConsequents == GraphConsequents(graph)

\* _InputAcceptor._get_inputs: the 'current' input of every Antecedent
GetInputs(W) ==
    [i \in DOMAIN NetAntecedents |->
        <<NetAntecedents[i], W.input[NetAntecedents[i]]["current"]>>]

\* _update_unique_id: the control system's id and the hash of the inputs'
\* representation, kept when the simulation has seen array inputs
UpdateUniqueId(W, s) ==
    IF W.sim[s].array_inputs THEN W
    ELSE [W EXCEPT !.sim[s].unique_id = GetInputs(W)]

\* _InputAcceptor._update_to_current
UpdateToCurrent(W, s) ==
    [W EXCEPT !.input =
        [a \in Antecedents |->
            IF a \in Range(NetAntecedents)
              THEN [W.input[a] EXCEPT ![s] = W.input[a]["current"]]
              ELSE W.input[a]]]

\* an exception leaves the compute() or set_input it was raised in
Raise(W, e) == [W EXCEPT !.exc = e]

\* the part of _reset_simulation and _clear_outputs after the Antecedents:
\* clear() on the mappings of every rule and Consequent of the network
ClearDownstream(W, s, order) ==
    LET ts == UNION {Range(VarTerms[c]) : c \in Range(NetConsequents)}
    IN  [W EXCEPT
           !.firing = [r \in Rules |->
                         IF r \in Range(order) THEN Cleared ELSE W.firing[r]],
           !.act = [c \in WeightedTerms |->
                      IF c[1] \in Range(order) THEN Cleared ELSE W.act[c]],
           !.out = [c \in Consequents |->
                      IF c \in Range(NetConsequents) THEN Cleared ELSE W.out[c]],
           !.mv = [t \in Terms |-> IF t \in ts THEN Cleared ELSE W.mv[t]],
           !.cuts = [t \in Terms |-> IF t \in ts THEN ClearedCuts ELSE W.cuts[t]]]

\* clear() on the input of every Antecedent of the network and on the
\* mappings of its terms
ClearAntecedents(W) ==
    LET ts == UNION {Range(VarTerms[a]) : a \in Range(NetAntecedents)}
    IN  [W EXCEPT
           !.input = [a \in Antecedents |->
                        IF a \in Range(NetAntecedents) THEN Cleared ELSE W.input[a]],
           !.mv = [t \in Terms |-> IF t \in ts THEN Cleared ELSE W.mv[t]],
           !.cuts = [t \in Terms |-> IF t \in ts THEN ClearedCuts ELSE W.cuts[t]]]

ForgetRuns(W, s) ==
    [W EXCEPT !.sim[s].calculated = <<>>, !.sim[s].run = 0]

\* "for rule in self.ctrl.rules" runs the generator: the rules it gives
Iterate(W) == RuleOrder(nxLegacy, W.gen, graph)

\* _clear_outputs once the generator has given it
ClearOutputsWith(W, s, it) ==
    IF ~it.ok THEN Raise(W, "CyclicDependencyError")
    ELSE ForgetRuns(ClearDownstream([W EXCEPT !.gen = it.gen], s, it.seq), s)

\* _clear_outputs
ClearOutputs(W, s) == ClearOutputsWith(W, s, Iterate(W))

\* a reset that also empties the simulation's output map
ResetWithOutputs(W, s, it) ==
    IF ~it.ok THEN Raise(W, "CyclicDependencyError")
    ELSE [ForgetRuns(
            ClearAntecedents(
              ClearDownstream([W EXCEPT !.gen = it.gen], s, it.seq)), s)
          EXCEPT !.sim[s].output = [c \in Consequents |-> None]]

\* _reset_simulation once the generator has given it
ResetWith(W, s, it) ==
    IF ~it.ok THEN Raise(W, "CyclicDependencyError")
    ELSE ForgetRuns(
           ClearAntecedents(
             ClearDownstream([W EXCEPT !.gen = it.gen], s, it.seq)), s)

\* _reset_simulation
ResetSimulation(W, s) == ResetWith(W, s, Iterate(W))

(***************************************************************************)
(* CrispValueCalculator.fuzz                                               *)
(***************************************************************************)
FuzzValue(t, value) ==
    IF value.k = "label"
      THEN Num(IF TermLabel[t] = value.l THEN Scale ELSE 0)
      ELSE Map1(LAMBDA x : InterpMembership(t, x), value)

\* fuzz(value) for variable a: the membership of every term of a
Fuzz(W, a, s, value) ==
    [W EXCEPT !.mv = [t \in Terms |->
        IF t \in Range(VarTerms[a])
          THEN [W.mv[t] EXCEPT ![s] = FuzzValue(t, value)]
          ELSE W.mv[t]]]

(***************************************************************************)
(* ControlSystemSimulation.compute_rule                                    *)
(***************************************************************************)
\* rule.antecedent.membership_value[sim]: a Term gives its stored value, a
\* TermAggregate combines those of its terms (and: fmin, or: fmax, not: 1 - x)
AntecedentMembership(W, r, s) ==
    LET e == RuleDef[r].antecedent
        m(i) == W.mv[e.args[i]][s]
    IN  CASE e.op = "term" -> m(1)
          [] e.op = "and"  -> Map2(Min2, m(1), m(2))
          [] e.op = "or"   -> Map2(Max2, m(1), m(2))
          [] e.op = "not"  -> Map1(LAMBDA x : Scale - x, m(1))

\* firing strength times weight, in fixed point
Activation(f, w) == Map1(LAMBDA x : (x * w) \div Scale, f)

\* the accumulation method of the consequent variables: np.fmax
Accumulate(new, old) == Map2(Max2, new, old)

\* step 3 of compute_rule for the consequents i, i+1, ... of rule r
RECURSIVE AccumulateFrom(_, _, _, _)
AccumulateFrom(W, r, s, i) ==
    IF i > Len(RuleDef[r].consequent) THEN W
    ELSE LET t     == RuleDef[r].consequent[i].term
             value == W.act[<<r, i>>][s]
             m     == IF W.mv[t][s] = None THEN value
                      ELSE Accumulate(value, W.mv[t][s])
         IN  AccumulateFrom(
                 [W EXCEPT !.mv[t][s] = m,
                           !.cuts[t][s][RuleDef[r].label] = m],
                 r, s, i + 1)

\* compute_rule(rule): aggregation, activation, accumulation.  A firing
\* strength of None cannot be multiplied by the weight.
\* step 1 of compute_rule: the aggregation
Aggregate(W, r, s) ==
    [W EXCEPT !.agg[r] = (RuleDef[r].antecedent.op # "term") \/ @,
              !.firing[r][s] = AntecedentMembership(W, r, s)]

\* step 2 of compute_rule: the activation of every consequent of the rule
Activate(W, r, s) ==
    [W EXCEPT !.act = [c \in WeightedTerms |->
        IF c[1] = r
          THEN [W.act[c] EXCEPT ![s] =
                  Activation(W.firing[r][s], RuleDef[r].consequent[c[2]].weight)]
          ELSE W.act[c]]]

\* steps 2 and 3 of compute_rule
ActivateAndAccumulate(W, r, s) ==
    IF W.firing[r][s] = None THEN Raise(W, "TypeError")
    ELSE AccumulateFrom(Activate(W, r, s), r, s, 1)

ComputeRule(W, r, s) == ActivateAndAccumulate(Aggregate(W, r, s), r, s)

\* "if first": the consequents of the first rule of the order are reset
ClearFirst(W, r, s) ==
    [W EXCEPT
       !.mv = [t \in Terms |->
                 IF t \in ConsequentTerms(r)
                   THEN [W.mv[t] EXCEPT ![s] = None] ELSE W.mv[t]],
       !.act = [c \in WeightedTerms |->
                  IF c[1] = r THEN [W.act[c] EXCEPT ![s] = None] ELSE W.act[c]]]

\* the loop of compute() over the rules order[i..]
RECURSIVE ComputeRules(_, _, _, _)
ComputeRules(W, order, s, i) ==
    IF i > Len(order) \/ W.exc # "none" THEN W
    ELSE ComputeRules(
            ComputeRule(IF i = 1 THEN ClearFirst(W, order[i], s) ELSE W,
                        order[i], s),
            order, s, i + 1)

(***************************************************************************)
(* CrispValueCalculator.defuzz.  The output membership function is built   *)
(* on the sample points of the universe (the points find_memberships adds  *)
(* where a cut crosses a term's curve only sharpen its corners).           *)
(***************************************************************************)
\* the sum, and the maximum, of the values of function f over S
RECURSIVE SumOver(_, _)
SumOver(f, S) ==
    IF S = {} THEN 0
    ELSE LET x == CHOOSE y \in S : TRUE IN f[x] + SumOver(f, S \ {x})

RECURSIVE MaxOver(_, _)
MaxOver(f, S) ==
    IF S = {} THEN 0
    ELSE LET x == CHOOSE y \in S : TRUE IN Max2(f[x], MaxOver(f, S \ {x}))

\* output_mf at x: the maximum over the terms that have a cut of
\* min(cut, mf); ct maps each such term to its cut
OutputMf(ct, x) == MaxOver([t \in DOMAIN ct |-> Min2(ct[t], Mf[t][x])], DOMAIN ct)

\* skfuzzy.defuzz(universe, output_mf, 'centroid'), in hundredths; it
\* refuses a curve of zero area
Area(c, ct) == SumOver([x \in Universe[c] |-> OutputMf(ct, x)], Universe[c])
Centroid(c, ct) ==
    (100 * SumOver([x \in Universe[c] |-> x * OutputMf(ct, x)], Universe[c]))
        \div Area(c, ct)

\* the first loop of find_memberships: term._cut = term.membership_value[sim]
FindCuts(W, c, s) ==
    [W EXCEPT !.cut = [t \in Terms |->
        IF t \in Range(VarTerms[c]) THEN W.mv[t][s] ELSE W.cut[t]]]

\* the second loop of find_memberships, from the terms' _cut, and the rest
\* of defuzz() without array inputs: the crisp value, or the exception
DefuzzFromCuts(W, c) ==
    LET ts == {t \in Range(VarTerms[c]) : W.cut[t] # None}
        ct == [t \in ts |-> NumOf(W.cut[t])]
    IN  IF ts = {} THEN [exc |-> "EmptyMembershipError", value |-> None]
        ELSE IF \E t \in ts : W.cut[t].k # "num"
          THEN [exc |-> "TypeError", value |-> None]
        ELSE IF Area(c, ct) = 0 THEN [exc |-> "DefuzzifyError", value |-> None]
        ELSE [exc |-> "none", value |-> Num(Centroid(c, ct))]

\* find_memberships_nd(idx) and defuzz for one index of the output array:
\* every term's membership value is indexed, whatever it is
DefuzzAt(W, c, s, idx) ==
    LET ts == Range(VarTerms[c])
        ct == [t \in ts |-> W.mv[t][s].v[idx]]
    IN  IF \E t \in ts : W.mv[t][s].k # "arr" \/ idx > Len(W.mv[t][s].v)
          THEN [exc |-> "TypeError", value |-> 0]
        ELSE IF Area(c, ct) = 0 THEN [exc |-> "DefuzzifyError", value |-> 0]
        ELSE [exc |-> "none", value |-> Centroid(c, ct)]

\* defuzz() with array inputs: an output of shape _array_shape, filled
\* index by index; iterating an output of no element is refused
ArrayOf(d) ==
    IF Len(d) = 0 THEN [exc |-> "ValueError", value |-> None]
    ELSE IF \E i \in DOMAIN d : d[i].exc # "none"
      THEN [exc |-> d[CHOOSE i \in DOMAIN d : d[i].exc # "none" /\
                          \A j \in 1..(i - 1) : d[j].exc = "none"].exc,
            value |-> None]
    ELSE [exc |-> "none", value |-> Arr([i \in DOMAIN d |-> d[i].value])]

\* the number of elements of an output of shape _array_shape
ShapeSize(shape) == IF shape.k = "num" THEN NumOf(shape) ELSE 0

DefuzzArray(W, c, s) ==
    ArrayOf([i \in 1..ShapeSize(W.sim[s].array_shape) |-> DefuzzAt(W, c, s, i)])

\* the terms' _cut after find_memberships_nd ran for the indexes of the
\* output: those of the last index reached
CutsAfterArray(W, c, s) ==
    [t \in Terms |->
        IF t \in Range(VarTerms[c]) /\ W.mv[t][s].k = "arr" /\ W.mv[t][s].v # <<>>
          THEN Num(W.mv[t][s].v[Len(W.mv[t][s].v)])
          ELSE W.cut[t]]

\* "consequent.output[self] = CrispValueCalculator(consequent, self).defuzz();
\* self.output[consequent.label] = consequent.output[self]" once the first
\* loop of find_memberships has run
StoreOutput(W, c, s, d) ==
    IF d.exc # "none" THEN Raise(W, d.exc)
    ELSE [W EXCEPT !.out[c][s] = d.value, !.sim[s].output[c] = d.value]

StoreDefuzz(W, c, s) ==
    IF W.sim[s].array_inputs
      THEN StoreOutput([W EXCEPT !.cut = CutsAfterArray(W, c, s)], c, s,
                       DefuzzArray(W, c, s))
      ELSE StoreOutput(W, c, s, DefuzzFromCuts(W, c))

\* the first loop of find_memberships, which defuzz() runs without array
\* inputs
DefuzzCuts(W, c, s) ==
    IF W.sim[s].array_inputs THEN W ELSE FindCuts(W, c, s)

\* CrispValueCalculator(c, s).defuzz(): the crisp value or the exception
DefuzzValue(W, c, s) ==
    IF W.sim[s].array_inputs THEN DefuzzArray(W, c, s)
    ELSE DefuzzFromCuts(FindCuts(W, c, s), c)

\* the world that CrispValueCalculator(c, s).defuzz() leaves: the terms'
\* _cut are written, nothing else is
AfterDefuzz(W, c, s) ==
    IF W.sim[s].array_inputs THEN [W EXCEPT !.cut = CutsAfterArray(W, c, s)]
    ELSE FindCuts(W, c, s)

\* defuzz() called for the Consequents cs[i..], up to the first failure
RECURSIVE DefuzzEach(_, _, _, _)
DefuzzEach(W, cs, s, i) ==
    IF i > Len(cs) \/ W.exc # "none" THEN W
    ELSE DefuzzEach(Raise(AfterDefuzz(W, cs[i], s),
                          DefuzzValue(W, cs[i], s).exc), cs, s, i + 1)

\* the loop of compute() over the Consequents cs[i..]
RECURSIVE DefuzzAll(_, _, _, _)
DefuzzAll(W, cs, s, i) ==
    IF i > Len(cs) \/ W.exc # "none" THEN W
    ELSE DefuzzAll(StoreDefuzz(DefuzzCuts(W, cs[i], s), cs[i], s), cs, s, i + 1)

(***************************************************************************)
(* ControlSystemSimulation.compute                                         *)
(***************************************************************************)
\* the loop of compute() over the Antecedents as[i..]: the check for a
\* missing input and the fuzzification, Antecedent by Antecedent
RECURSIVE FuzzifyInputs(_, _, _, _)
FuzzifyInputs(W, as, s, i) ==
    IF i > Len(as) THEN W
    ELSE IF W.input[as[i]][s] = None THEN Raise(W, "MissingInputError")
    ELSE FuzzifyInputs(Fuzz(W, as[i], s, W.input[as[i]][s]), as, s, i + 1)

\* the cache shortcut: the outputs stored on the Consequents are returned
CachedOutputs(W, s) ==
    [W EXCEPT !.exc = "return",
              !.sim[s].output = [c \in Consequents |->
                  IF c \in Range(NetConsequents) THEN W.out[c][s] ELSE @[c]]]

\* "for rule in self.ctrl.rules": the generator runs, then the rules
RunRulesWith(W, s, it) ==
    IF ~it.ok THEN Raise(W, "CyclicDependencyError")
    ELSE ComputeRules([W EXCEPT !.gen = it.gen], it.seq, s, 1)

RunRules(W, s) == RunRulesWith(W, s, Iterate(W))

\* a compute() that does nothing special for array inputs
ArrayModeSkipped(W, s) == W

\* "if self._array_inputs: self.cache = False; self._clear_outputs()"
ArrayMode(W, s) ==
    IF W.sim[s].array_inputs
      THEN ClearOutputs([W EXCEPT !.sim[s].cache = FALSE], s)
      ELSE W

\* the loops of compute() over the Antecedents and over the rules
FuzzifyAndRun(W, s) ==
    IF W.exc # "none" THEN W ELSE RunRules(W, s)

\* AfterArrayMode without the cache shortcut
AfterArrayModeNoShortcut(W, s) ==
    IF W.exc # "none" THEN W
    ELSE FuzzifyAndRun(FuzzifyInputs(W, NetAntecedents, s, 1), s)

\* compute() from the cache shortcut to the loop over the Consequents
AfterArrayMode(W, s) ==
    IF W.exc # "none" THEN W
    ELSE IF W.sim[s].cache /\ W.sim[s].unique_id \in Range(W.sim[s].calculated)
      THEN CachedOutputs(W, s)
    ELSE FuzzifyAndRun(FuzzifyInputs(W, NetAntecedents, s, 1), s)

\* compute() up to the loop over the Consequents
ComputeBegin(W, s) == AfterArrayMode(ArrayMode(UpdateToCurrent(W, s), s), s)

\* a run counter that is never looked at
CountRunOnly(W, s) ==
    IF W.exc # "none" THEN W ELSE [W EXCEPT !.sim[s].run = @ + 1]

\* "self._run += 1; if self._run % self._flush_after_run == 0:
\* self._reset_simulation()"
CountRun(W, s) ==
    IF W.exc # "none" THEN W
    ELSE IF (W.sim[s].run + 1) % W.sim[s].flush_after_run = 0
      THEN ResetSimulation([W EXCEPT !.sim[s].run = @ + 1], s)
    ELSE [W EXCEPT !.sim[s].run = @ + 1]

\* "if self.cache is not False: self._calculated.append(self.unique_id)
\* else: self._reset_simulation()"
NoteRun(W, s) ==
    IF W.sim[s].cache
      THEN [W EXCEPT !.sim[s].calculated = Append(@, W.sim[s].unique_id)]
      ELSE ResetSimulation(W, s)

\* compute() after the loop over the Consequents: the run is noted or the
\* state is reset, and every flush_after_run runs the state is reset
ComputeEnd(W, s) == CountRun(NoteRun(W, s), s)

\* EndIfDone noting the run of a compute() that has failed as well
EndEvenIfFailed(W, s) ==
    IF W.exc # "none" THEN Raise(NoteRun(W, s), W.exc) ELSE ComputeEnd(W, s)

\* compute() after the loop over the Consequents, if that is reached
EndIfDone(W, s) == IF W.exc # "none" THEN W ELSE ComputeEnd(W, s)

\* the loop of compute() over the Consequents and what follows it
DefuzzAndEnd(W, s) ==
    IF W.exc # "none" THEN W
    ELSE EndIfDone(DefuzzAll(W, NetConsequents, s, 1), s)

\* compute()
Compute(W, s) == DefuzzAndEnd(ComputeBegin(W, s), s)

(***************************************************************************)
(* _InputAcceptor.__setitem__                                              *)
(***************************************************************************)
\* value.max(initial=0) and value.min(initial=0) of an array, the value
\* itself for a number
MaxVal(value) ==
    IF value.k = "arr" THEN MaxOver(value.v, DOMAIN value.v) ELSE NumOf(value)
MinVal(value) ==
    IF value.k = "arr" THEN -MaxOver([i \in DOMAIN value.v |-> -value.v[i]],
                                      DOMAIN value.v)
    ELSE NumOf(value)

\* the part of __setitem__ for a numeric value before the bounds are
\* looked at: an array marks the simulation, a number resets a simulation
\* that has seen arrays
NoShape(W, s) ==
    IF W.exc # "none" THEN W ELSE [W EXCEPT !.sim[s].array_shape = FalseV]

NoteKind(W, s, value) ==
    IF value.k = "arr"
      THEN [W EXCEPT !.sim[s].array_inputs = TRUE,
                     !.sim[s].array_shape = Num(Len(value.v))]
    ELSE IF W.sim[s].array_inputs THEN NoShape(ResetSimulation(W, s), s)
    ELSE W

\* the bounds of the universe: the value to store, or out of bounds
ClipHigh(a, value) ==
    IF MaxVal(value) > UMax(a)
      THEN Map1(LAMBDA x : Min2(x, UMax(a)), value) ELSE value

ClipLow(a, value, clipped) ==
    IF MinVal(value) < UMin(a)
      THEN Map1(LAMBDA x : Max2(x, UMin(a)), clipped) ELSE clipped

\* bounds that are enforced at the top of the universe only
BoundedAbove(clip, a, value) ==
    IF (MaxVal(value) > UMax(a) \/ MinVal(value) < UMin(a)) /\ ~clip
      THEN [exc |-> "OutOfBoundsError", value |-> value]
      ELSE [exc |-> "none", value |-> ClipHigh(a, value)]

Bounded(clip, a, value) ==
    IF (MaxVal(value) > UMax(a) \/ MinVal(value) < UMin(a)) /\ ~clip
      THEN [exc |-> "OutOfBoundsError", value |-> value]
      ELSE [exc |-> "none", value |-> ClipLow(a, value, ClipHigh(a, value))]

\* "var.input['current'] = value; self.sim._update_unique_id();
\* self._update_to_current()"
StoreInput(W, s, a, value) ==
    UpdateToCurrent(UpdateUniqueId([W EXCEPT !.input[a]["current"] = value], s), s)

\* sim.input[key] = value
\* the bounds check of __setitem__ and the code after it, given b, the
\* value to store or the failure
StoreBounded(W, s, key, b) ==
    IF b.exc # "none" THEN Raise(W, b.exc) ELSE StoreInput(W, s, key, b.value)

\* __setitem__ for a numeric value once its kind has been noted
SetNumber(W, s, key, value) ==
    IF W.exc # "none" THEN W
    ELSE StoreBounded(W, s, key, Bounded(W.sim[s].clip_to_bounds, key, value))

\* a __setitem__ that looks at the kind of the value before it looks for
\* the Antecedent
SetInputKindFirst(W, s, key, value) ==
    IF key \notin Range(NetAntecedents)
      THEN Raise(IF value.k = "label" THEN W ELSE NoteKind(W, s, value),
                 "UnknownInputError")
    ELSE IF value.k = "label" THEN StoreInput(W, s, key, value)
    ELSE SetNumber(NoteKind(W, s, value), s, key, value)

SetInput(W, s, key, value) ==
    IF key \notin Range(NetAntecedents) THEN Raise(W, "UnknownInputError")
    ELSE IF value.k = "label" THEN StoreInput(W, s, key, value)
    ELSE SetNumber(NoteKind(W, s, value), s, key, value)

(***************************************************************************)
(* The calls, as actions                                                   *)
(***************************************************************************)
vars == <<nxLegacy, graph, gen, result, input, mv, cuts, cut, firing, act, out,
          agg, sim, pc, ops, memo>>

Result(op, arg, outcome, value) ==
    [op |-> op, arg |-> arg, outcome |-> outcome, value |-> value]

Outcome(W) == IF W.exc \in {"none", "return"} THEN "ok" ELSE W.exc

\* ControlSystem.addrule(r)
AddRule(r) ==
    /\ graph.id < MaxGraphs
    /\ \E a \in {Addrule(nxLegacy, gen, graph, r)} :
          /\ graph' = a.graph
          /\ gen' = a.gen
          /\ result' = Result("addrule", r, a.outcome, <<>>)
    /\ UNCHANGED <<nxLegacy, simVars, ops>>

\* ControlSystem.addrule(x) for an x that is no Rule
AddNonRule ==
    /\ result' = Result("addrule", "not a Rule", "ValueError", <<>>)
    /\ UNCHANGED <<netVars, simVars, ops>>

\* list(ControlSystem.rules)
IterRules ==
    /\ \E it \in {RuleOrder(nxLegacy, gen, graph)} :
          /\ gen' = it.gen
          /\ result' = Result("rules", "-",
                              IF it.ok THEN "ok" ELSE "CyclicDependencyError",
                              [seq |-> it.seq, left |-> it.left])
    /\ UNCHANGED <<nxLegacy, graph, simVars, ops>>

\* a call on simulation s that leaves the world W
SimCall(op, s, W, value) ==
    /\ ops < MaxOps
    /\ ops' = ops + 1
    /\ SetWorld(W)
    /\ result' = Result(op, s, Outcome(W), value)
    /\ UNCHANGED <<nxLegacy, graph, pc, memo>>

\* the values callers assign to inputs, and the keys they assign them to
InputValues == {Num(0), Num(2), Num(3), Arr(<<2>>), Lab("hot")}
InputKeys == Antecedents \cup {"wind"}

\* s.input[key] = value
DoSetInput(s, key, value) ==
    SimCall("set_input", s, SetInput(World, s, key, value),
            [key |-> key, value |-> value])

\* s.compute()
DoCompute(s) ==
    \E W \in {Compute(World, s)} :
        SimCall("compute", s, W, [cached |-> W.exc = "return"])

\* s.reset()
DoReset(s) == SimCall("reset", s, ResetSimulation(World, s), <<>>)

(***************************************************************************)
(* Initial states                                                          *)
(***************************************************************************)
\* ControlSystem(rules): addrule for every rule of the list
RECURSIVE Build(_, _, _, _)

\* the loop of the constructor after the addrule that gave a
BuildAfter(legacy, a, rs) ==
    IF a.outcome # "ok" THEN a ELSE Build(legacy, a.gen, a.graph, rs)

Build(legacy, g, G, rs) ==
    IF rs = <<>> THEN [outcome |-> "ok", graph |-> G, gen |-> g]
    ELSE BuildAfter(legacy, Addrule(legacy, g, G, Head(rs)), Tail(rs))

\* ControlSystemSimulation(ctrl, clip_to_bounds, cache, flush_after_run)
NewSimulation(W, clip, cache, flush) ==
    [cache |-> cache, array_inputs |-> FALSE, array_shape |-> None,
     unique_id |-> GetInputs(W), clip_to_bounds |-> clip, calculated |-> <<>>,
     run |-> 0, flush_after_run |-> flush,
     output |-> [c \in Consequents |-> None]]

\* the node mappings before any simulation has stored a value
InitNodes ==
    /\ input = [a \in Antecedents |-> Cleared]
    /\ mv = [t \in Terms |-> Cleared]
    /\ cuts = [t \in Terms |-> ClearedCuts]
    /\ cut = [t \in Terms |-> None]
    /\ firing = [r \in Rules |-> Cleared]
    /\ act = [c \in WeightedTerms |-> Cleared]
    /\ out = [c \in Consequents |-> Cleared]
    /\ agg = [r \in Rules |-> FALSE]
    /\ pc = [s \in Sims |-> [at |-> "idle", i |-> 0]]
    /\ ops = 0
    /\ memo = {}
    /\ result = Result("init", "-", "ok", <<>>)

\* a control system built from the rules rs; simulation s1 created with
\* the given arguments, s2 with the default ones
InitWith(rs, clips, caches, flushes) ==
    /\ nxLegacy \in BOOLEAN
    /\ \E b \in {Build(nxLegacy, [cache |-> <<>>, cached_graph |-> NoGraph],
                        [id |-> 1, nodes |-> <<>>, edges |-> {}], rs)} :
          /\ b.outcome = "ok"
          /\ graph = b.graph
          /\ gen = b.gen
    /\ InitNodes
    /\ \E clip \in clips, cache \in caches, flush \in flushes :
          sim = [s \in Sims |->
                   IF s = "s1" THEN NewSimulation([input |-> input], clip, cache, flush)
                   ELSE NewSimulation([input |-> input], TRUE, TRUE, DefaultFlush)]

\* ControlSystem(): an empty graph and a generator that has cached nothing
InitNet == InitWith(<<>>, {TRUE}, {TRUE}, {DefaultFlush})

NextNet ==
    \/ \E r \in Rules : AddRule(r)
    \/ AddNonRule
    \/ IterRules

SpecNet == InitNet /\ [][NextNet]_vars

\* the networks the simulations are run on
SimNetworks ==
    {<<"R1", "R2">>, <<"R1", "R2", "R3">>, <<"R6", "R5">>, <<"R1", "R4">>}

InitSim ==
    \E rs \in SimNetworks : InitWith(rs, BOOLEAN, BOOLEAN, 1..MaxFlush)

NextSim ==
    \/ \E s \in Sims, key \in InputKeys, value \in InputValues :
          DoSetInput(s, key, value)
    \/ \E s \in Sims : DoCompute(s)
    \/ \E s \in Sims : DoReset(s)

SpecSim == InitSim /\ [][NextSim]_vars

(***************************************************************************)
(* compute() in steps, for simulations that run in different threads.  A   *)
(* thread may be descheduled anywhere; the steps here are the code up to   *)
(* the loop over the Consequents, the two loops of find_memberships for a  *)
(* Consequent, and the code after the loop over the Consequents.           *)
(***************************************************************************)
Idle == [at |-> "idle", i |-> 0]

\* a step of simulation s that leaves the world W and the position p
Step(op, s, W, p) ==
    /\ SetWorld(W)
    /\ pc' = [pc EXCEPT ![s] = IF W.exc # "none" THEN Idle ELSE p]
    /\ result' = Result(op, s, Outcome(W), <<>>)
    /\ UNCHANGED <<nxLegacy, graph, ops, memo>>

\* the inputs the threads assign between their compute() calls
ParInputs == {Num(2), Num(3)}

\* s.input[key] = value, while no compute() is under way
PSetInput(s, key, value) ==
    /\ \A o \in Sims : pc[o] = Idle
    /\ Step("set_input", s, SetInput(World, s, key, value), Idle)

\* compute() up to the loop over the Consequents
PBegin(s) ==
    /\ pc[s] = Idle
    /\ Step("begin", s, ComputeBegin(World, s), [at |-> "cuts", i |-> 1])

\* the first loop of find_memberships for the Consequent compute() is at
PCuts(s) ==
    /\ pc[s].at = "cuts"
    /\ Step("cuts", s, DefuzzCuts(World, NetConsequents[pc[s].i], s),
            [at |-> "curve", i |-> pc[s].i])

\* the second loop of find_memberships and the rest of defuzz()
PCurve(s) ==
    /\ pc[s].at = "curve"
    /\ Step("curve", s, StoreDefuzz(World, NetConsequents[pc[s].i], s),
            IF pc[s].i < Len(NetConsequents)
              THEN [at |-> "cuts", i |-> pc[s].i + 1]
              ELSE [at |-> "end", i |-> 0])

\* compute() after the loop over the Consequents
PEnd(s) ==
    /\ pc[s].at = "end"
    /\ Step("end", s, ComputeEnd(World, s), Idle)

ParNetworks == {<<"R1", "R2">>, <<"R1", "R2", "R3">>}

\* both simulations are created with the default arguments
InitPar ==
    \E rs \in ParNetworks : InitWith(rs, {TRUE}, {TRUE}, {DefaultFlush})

NextPar ==
    \/ \E s \in Sims, value \in ParInputs : PSetInput(s, "temp", value)
    \/ \E s \in Sims : PBegin(s)
    \/ \E s \in Sims : PCuts(s)
    \/ \E s \in Sims : PCurve(s)
    \/ \E s \in Sims : PEnd(s)

SpecPar == InitPar /\ [][NextPar]_vars

(***************************************************************************)
(* One simulation followed through more calls: the caching, the periodic  *)
(* eviction and reset() need several runs of the same simulation.          *)
(***************************************************************************)
MaxCalls == 6

OneInputs == {Num(0), Num(2), Num(3), Arr(<<3>>)}
OneNetworks == {<<"R1", "R2">>, <<"R6", "R5">>}
\* the keys assigned to: "serv" is no Antecedent of the first network
OneKeys == Antecedents
OneFlushes == (1..MaxFlush) \cup {DefaultFlush}

\* the history after a call of s that left W: it is emptied with the
\* fingerprints, and a full run that recorded its fingerprint is added
Remember(m, op, W, s) ==
    IF W.sim[s].calculated = <<>> THEN {}
    ELSE IF op = "compute" /\ W.exc = "none"
      THEN {e \in m : e.id # W.sim[s].unique_id}
           \cup {[id |-> W.sim[s].unique_id, output |-> W.sim[s].output]}
    ELSE m

\* a call on simulation s that leaves the world W
OneCall(op, s, W, value) ==
    /\ ops < MaxCalls
    /\ ops' = ops + 1
    /\ SetWorld(W)
    /\ result' = Result(op, s, Outcome(W), value)
    /\ memo' = Remember(memo, op, W, s)
    /\ UNCHANGED <<nxLegacy, graph, pc>>

OneSetInput(key, value) ==
    \E W \in {SetInput(World, "s1", key, value)} :
        OneCall("set_input", "s1", W, [key |-> key, value |-> value])

OneCompute ==
    \E W \in {Compute(World, "s1")} :
        OneCall("compute", "s1", W, [cached |-> W.exc = "return"])

OneReset ==
    \E W \in {ResetSimulation(World, "s1")} : OneCall("reset", "s1", W, <<>>)

\* the networks of OneNetworks have a rule order under either networkx
InitOne ==
    /\ \E rs \in OneNetworks : InitWith(rs, BOOLEAN, BOOLEAN, OneFlushes)
    /\ ~nxLegacy

NextOne ==
    \/ \E key \in OneKeys, value \in OneInputs : OneSetInput(key, value)
    \/ OneCompute
    \/ OneReset

SpecOne == InitOne /\ [][NextOne]_vars

(***************************************************************************)
(* A network that grows while a simulation of it is in use: addrule        *)
(* between the calls of simulation s1.                                     *)
(***************************************************************************)
GrowNetworks == {<<"R1">>, <<"R6">>}
GrowRules == {"R2", "R3", "R5"}

InitGrow ==
    /\ \E rs \in GrowNetworks : InitWith(rs, {TRUE}, {TRUE}, {DefaultFlush})
    /\ ~nxLegacy

NextGrow ==
    \/ \E key \in InputKeys, value \in InputValues : DoSetInput("s1", key, value)
    \/ DoCompute("s1")
    \/ \E r \in GrowRules : AddRule(r)

SpecGrow == InitGrow /\ [][NextGrow]_vars

(***************************************************************************)
(* The introspection: print_state, the dictionaries of                     *)
(* LogStateControlSystemSimulation, and CrispValueCalculator.defuzz called *)
(* by hand, between the calls of two simulations.                          *)
(***************************************************************************)
MaxLogCalls == 5

LogInputs == {Num(2), Num(3), Arr(<<3>>)}
LogNetworks == {<<"R1", "R2">>}

\* "if next(self.ctrl.consequents).output[self] is None: raise ValueError"
CheckComputed(W, s) ==
    IF W.out[NetConsequents[1]][s] = None THEN Raise(W, "NotComputedError")
    ELSE W

\* "for rn, r in enumerate(self.sim.ctrl.rules)" once the generator has
\* given it
EnumerateRules(W, it) ==
    IF W.exc # "none" THEN W
    ELSE IF ~it.ok THEN Raise(W, "CyclicDependencyError")
    ELSE [W EXCEPT !.gen = it.gen]

\* LogStateControlSystemSimulation(s) and its dictionaries that read the
\* stored inputs, memberships, firing strengths, activations and cuts
ReadDictionaries(W, s) == EnumerateRules(CheckComputed(W, s), Iterate(W))

\* LogStateControlSystemSimulation(s).dict_consequents_crispvalue()
CrispValues(W, s) == DefuzzEach(CheckComputed(W, s), NetConsequents, s, 1)

\* print_state: the dictionaries of the Antecedents and of the rules, then
\* those of the Consequents
PrintState(W, s) == DefuzzEach(ReadDictionaries(W, s), NetConsequents, s, 1)

\* a call on simulation s that leaves the world W
LogCall(op, s, W, value) ==
    /\ ops < MaxLogCalls
    /\ ops' = ops + 1
    /\ SetWorld(W)
    /\ result' = Result(op, s, Outcome(W), value)
    /\ UNCHANGED <<nxLegacy, graph, pc, memo>>

\* s.input["temp"] = value
LSetInput(s, value) ==
    \E W \in {SetInput(World, s, "temp", value)} :
        LogCall("set_input", s, W, [key |-> "temp", value |-> value])

\* s.compute()
LCompute(s) ==
    \E W \in {Compute(World, s)} :
        LogCall("compute", s, W, [cached |-> W.exc = "return"])

\* s.reset()
LReset(s) ==
    \E W \in {ResetSimulation(World, s)} : LogCall("reset", s, W, <<>>)

\* CrispValueCalculator(c, s).defuzz()
LDefuzz(s, c) ==
    \E d \in {DefuzzValue(World, c, s)} :
        LogCall("defuzz", s, Raise(AfterDefuzz(World, c, s), d.exc),
                [consequent |-> c, value |-> d.value])

\* s.print_state()
LPrintState(s) ==
    \E W \in {PrintState(World, s)} : LogCall("print_state", s, W, <<>>)

\* LogStateControlSystemSimulation(s).dict_consequents_crispvalue()
LCrispValues(s) ==
    \E W \in {CrispValues(World, s)} : LogCall("crispvalue", s, W, <<>>)

\* the other dictionaries of LogStateControlSystemSimulation(s)
LReadDictionaries(s) ==
    \E W \in {ReadDictionaries(World, s)} : LogCall("dictionaries", s, W, <<>>)

\* simulation s1 is created with or without caching
InitLog ==
    /\ \E rs \in LogNetworks : InitWith(rs, {TRUE}, BOOLEAN, {DefaultFlush})
    /\ ~nxLegacy

NextLog ==
    \/ \E s \in Sims, value \in LogInputs : LSetInput(s, value)
    \/ \E s \in Sims : LCompute(s)
    \/ \E s \in Sims : LReset(s)
    \/ \E s \in Sims, c \in Consequents : LDefuzz(s, c)
    \/ \E s \in Sims : LPrintState(s)
    \/ \E s \in Sims : LCrispValues(s)
    \/ \E s \in Sims : LReadDictionaries(s)

SpecLog == InitLog /\ [][NextLog]_vars

(***************************************************************************)
(* Claims about the network and the rule order (under SpecNet)             *)
(***************************************************************************)
RuleSet(G) == Range(GraphRules(G))

\* the rules of G that have term t as a consequent
Writers(G, t) == {w \in RuleSet(G) : t \in ConsequentTerms(w)}

\* seq, an order of rules of G, places every rule after all writers of the
\* terms its antecedent reads
OrderValid(seq, G) ==
    \A i \in DOMAIN seq : \A t \in AntecedentTerms(seq[i]) :
        \A w \in Writers(G, t) : \E j \in 1..(i - 1) : seq[j] = w

IsPermutation(seq, S) ==
    /\ Range(seq) = S
    /\ \A i, j \in DOMAIN seq : seq[i] = seq[j] => i = j

\* w feeds r: w writes a term r reads
Feeds(w, r) == ConsequentTerms(w) \cap AntecedentTerms(r) # {}

RECURSIVE ReachFrom(_, _, _)
ReachFrom(G, S, n) ==
    IF n = 0 THEN S
    ELSE ReachFrom(G, S \cup {r \in RuleSet(G) : \E w \in S : Feeds(w, r)}, n - 1)

\* no rule of G depends, directly or through other rules, on itself
Acyclic(G) ==
    \A r \in RuleSet(G) :
        r \notin ReachFrom(G, {x \in RuleSet(G) : Feeds(r, x)}, Cardinality(RuleSet(G)))

\* every term read by a rule of G is a term of an Antecedent or is written
\* by a rule of G
AllReadsWritten(G) ==
    \A r \in RuleSet(G) : \A t \in AntecedentTerms(r) :
        Parent(t) \in Antecedents \/ Writers(G, t) # {}

\* A reads a term only B writes, and B reads a term only A writes
MutualPair(G, A, B) ==
    /\ A # B
    /\ \E t \in AntecedentTerms(A) : Writers(G, t) = {B}
    /\ \E u \in AntecedentTerms(B) : Writers(G, u) = {A}

HasMutualPair(G) == \E A, B \in RuleSet(G) : MutualPair(G, A, B)

Iterated == result.op = "rules"

\* C1 (as claimed): whenever the rule order generator returns a sequence,
\* every rule comes after every rule of the network that writes a term its
\* antecedent reads.
C1_OrderAfterAllWriters ==
    (Iterated /\ result.outcome = "ok") => OrderValid(result.value.seq, graph)

\* C2 (as claimed): for every network without a dependency cycle, iterating
\* the rule order yields every rule of the network exactly once.
C2_AcyclicOriginal ==
    (Iterated /\ Acyclic(graph)) =>
        /\ result.outcome = "ok"
        /\ IsPermutation(result.value.seq, RuleSet(graph))

\* C2 (amended): for every network without a dependency cycle in which every
\* term read by a rule is a term of an Antecedent or is written by some rule,
\* iterating the rule order yields every rule of the network exactly once.
C2_AcyclicWrittenPermutation ==
    (Iterated /\ Acyclic(graph) /\ AllReadsWritten(graph)) =>
        /\ result.outcome = "ok"
        /\ IsPermutation(result.value.seq, RuleSet(graph))

C2_Witness ==
    /\ Iterated /\ Acyclic(graph) /\ AllReadsWritten(graph)
    /\ Len(result.value.seq) >= 3
    /\ \E r \in RuleSet(graph) : \E t \in AntecedentTerms(r) : Writers(graph, t) # {}

\* addrule(B) was called on a network holding a rule A that is mutually
\* dependent with B
CompletesMutualPair ==
    /\ result.op = "addrule" /\ result.arg \in Rules
    /\ \E A \in RuleSet(graph) :
          MutualPair(Compose(graph, RuleGraph(result.arg)), A, result.arg)

\* C3: when a scan schedules no rule while rules remain, iterating the rules
\* fails with the cyclic dependency error, produces no sequence and caches
\* none; and the call that would complete a pair of mutually dependent rules
\* (each the only writer of a term the other reads) fails with that error.
C3_StuckScanFails ==
    /\ (Iterated /\ result.value.left # <<>>) =>
          /\ result.outcome = "CyclicDependencyError"
          /\ result.value.seq = <<>>
          /\ gen.cached_graph # graph.id
    /\ (Iterated /\ result.outcome = "ok") =>
          Len(result.value.seq) = Len(GraphRules(graph))
    /\ CompletesMutualPair =>
          /\ result.outcome = "CyclicDependencyError"
          /\ ~HasMutualPair(graph)

C3_Witness ==
    /\ CompletesMutualPair
    /\ result.outcome = "CyclicDependencyError"
    /\ Cardinality(RuleSet(graph)) = 1

\* C4 (as claimed): no two rules of the network share a label.
C4_NoTwoRulesShareLabel ==
    \A r1, r2 \in RuleSet(graph) :
        RuleDef[r1].label = RuleDef[r2].label => r1 = r2

\* C5: a rejected addrule leaves the graph as it was.
C5_RejectedAddLeavesGraph ==
    [][(result'.op = "addrule" /\ result'.outcome # "ok") => graph' = graph]_vars

C5_Witness ==
    /\ result.op = "addrule" /\ result.outcome = "DuplicateLabelError"
    /\ result.arg \notin RuleSet(graph)
    /\ Len(graph.nodes) > 0

\* C6 (as claimed): addrule of a Rule fails only with the duplicate label
\* error; that no rule order exists is reported by the evaluation alone.
C6_AddruleFailsOnlyOnDuplicate ==
    (result.op = "addrule" /\ result.arg \in Rules) =>
        result.outcome \in {"ok", "DuplicateLabelError"}

(***************************************************************************)
(* Claims about the simulations (under SpecSim and SpecPar)                *)
(***************************************************************************)
SimOps == {"set_input", "compute", "reset"}

\* simulation s has stored the same inputs, term memberships, rule firings
\* and fingerprints of its runs before and after the step
StoredUnchanged(s) ==
    /\ \A a \in Antecedents : input'[a][s] = input[a][s]
    /\ \A t \in Terms : mv'[t][s] = mv[t][s]
    /\ \A r \in Rules : firing'[r][s] = firing[r][s]
    /\ sim'[s].calculated = sim[s].calculated

\* C7: a set_input, compute or reset (with the eviction compute does) on one
\* simulation leaves the other simulation's stored inputs, term memberships,
\* rule firings and fingerprint history as they were.
C7_OtherContextUntouched ==
    [][\A s \in Sims :
          (result'.op \in SimOps /\ result'.arg # s) => StoredUnchanged(s)]_vars

\* C8: whatever the interleaving of the steps of two compute() calls, the
\* defuzzification step of a simulation stores the output that follows from
\* the simulation's own term memberships, as it does when the calls run one
\* after the other; it never works on a cut another simulation has written.
C8_DefuzzFromOwnMemberships ==
    [][\A s \in Sims :
          (pc[s].at = "curve" /\ result'.op = "curve" /\ result'.arg = s)
              => LET c   == NetConsequents[pc[s].i]
                     own == StoreDefuzz(DefuzzCuts(World, c, s), c, s)
                 IN  /\ result'.outcome = Outcome(own)
                     /\ out'[c][s] = own.out[c][s]]_vars

\* C9: a set_input, compute or reset leaves the network's graph and the
\* fields stored on the shared Term nodes (the terms' _cut) as they were.
C9_EvaluationLeavesNetwork ==
    [][result'.op \in SimOps => (graph' = graph /\ cut' = cut)]_vars

\* an Antecedent of the network has no value for simulation s, neither its
\* own nor the current one
MissingInput(s) ==
    \E a \in Range(NetAntecedents) :
        input[a][s] = None /\ input[a]["current"] = None

\* C10: compute() called while an Antecedent has no value fails with
\* MissingInputError, and no term membership, rule firing, activation,
\* output or fingerprint of the simulation has changed.
C10_MissingInputChangesNothing ==
    [][\A s \in Sims :
          (result'.op = "compute" /\ result'.arg = s /\ MissingInput(s))
              => /\ result'.outcome = "MissingInputError"
                 /\ mv' = mv /\ firing' = firing /\ act' = act /\ out' = out
                 /\ sim'[s].output = sim[s].output
                 /\ sim'[s].unique_id = sim[s].unique_id
                 /\ sim'[s].calculated = sim[s].calculated]_vars

(***************************************************************************)
(* Claims about one simulation's calls (under SpecSim and SpecOne)         *)
(***************************************************************************)
\* the network has no valid rule order
NoRuleOrder == ~Iterate(World).ok

\* the terms of the network's Antecedents
NetAntecedentTerms ==
    UNION {Range(VarTerms[a]) : a \in Range(NetAntecedents)}

\* the step stored nothing that a rule or a defuzzification produces, and
\* noted no run of s
NoRuleRan(s) ==
    /\ firing' = firing
    /\ act' = act
    /\ out' = out
    /\ cuts' = cuts
    /\ cut' = cut
    /\ agg' = agg
    /\ \A t \in Terms \ NetAntecedentTerms : mv'[t] = mv[t]
    /\ sim'[s].calculated = sim[s].calculated
    /\ sim'[s].run = sim[s].run
    /\ sim'[s].unique_id = sim[s].unique_id
    /\ sim'[s].output = sim[s].output

\* C11: if the network has no valid rule order, compute() (here with every
\* Antecedent assigned) fails with CyclicDependencyError, executes no rule
\* (no firing strength, activation or consequent membership is stored), and
\* leaves everything the simulation stored as it was, the memberships of
\* all terms included
C11_NoOrderLeavesOverlay ==
    [][\A s \in Sims :
         (/\ result'.op = "compute"
          /\ result'.arg = s
          /\ NoRuleOrder
          /\ \A a \in Range(NetAntecedents) : input[a]["current"] # None)
         => /\ result'.outcome = "CyclicDependencyError"
            /\ NoRuleRan(s)
            /\ mv' = mv]_vars

\* the step is a compute() of s1 that took the cache shortcut
CacheHit ==
    /\ result'.op = "compute"
    /\ result'.outcome = "ok"
    /\ result'.value.cached

HasArrayInput ==
    \E a \in Range(NetAntecedents) : input[a]["current"].k = "arr"

\* C13: whenever an Antecedent input of the simulation is an array,
\* compute() does not take the cache shortcut, leaves caching disabled and
\* leaves no fingerprint recorded
C13_ArrayInputsDisableCache ==
    [][(result'.op = "compute" /\ HasArrayInput)
         => /\ result'.outcome = "ok" => ~result'.value.cached
            /\ ~sim'["s1"].cache
            /\ sim'["s1"].calculated = <<>>]_vars

\* a compute() on array inputs has run the inference and returned arrays
C13_Witness ==
    /\ result.op = "compute"
    /\ result.outcome = "ok"
    /\ ~result.value.cached
    /\ sim["s1"].array_inputs
    /\ \E c \in Range(NetConsequents) : sim["s1"].output[c].k = "arr"

\* the terms and the rules of the simulation's network
NetTerms ==
    UNION {Range(VarTerms[v]) :
             v \in Range(NetAntecedents) \cup Range(NetConsequents)}
NetRules == Range(GraphRules(graph))

\* s1 holds nothing that a run computes: no membership, firing strength,
\* activation or Consequent output, and no fingerprint
NothingComputed ==
    /\ \A t \in NetTerms : mv[t]["s1"] = None
    /\ \A r \in NetRules : firing[r]["s1"] = None
    /\ \A c \in WeightedTerms : c[1] \in NetRules => act[c]["s1"] = None
    /\ \A c \in Range(NetConsequents) : out[c]["s1"] = None
    /\ sim["s1"].calculated = <<>>

\* a simulation just created on the network with s1's arguments, with the
\* inputs of s1
FreshWorld ==
    [World EXCEPT
        !.mv = [t \in Terms |-> Cleared],
        !.cuts = [t \in Terms |-> ClearedCuts],
        !.cut = [t \in Terms |-> None],
        !.firing = [r \in Rules |-> Cleared],
        !.act = [c \in WeightedTerms |-> Cleared],
        !.out = [c \in Consequents |-> Cleared],
        !.agg = [r \in Rules |-> FALSE],
        !.sim["s1"] = NewSimulation(World, sim["s1"].clip_to_bounds,
                                    sim["s1"].cache, sim["s1"].flush_after_run)]

\* compute() on W succeeds with the outputs o
Gives(W, o) == Outcome(W) = "ok" /\ W.sim["s1"].output = o

\* C14: with caching enabled and flush_after_run = N the state is evicted
\* after every N-th completed run (the run counter counts the full runs
\* since the last eviction) and by no other compute(); with caching
\* disabled it is evicted after every run; a run that follows an eviction
\* gives the outputs a simulation just created gives for the same inputs
C14_EvictionEveryNthRun ==
    [][(result'.op = "compute" /\ result'.outcome = "ok")
         => /\ result'.value.cached
               => /\ mv' = mv
                  /\ firing' = firing
                  /\ sim'["s1"].run = sim["s1"].run
                  /\ sim'["s1"].calculated = sim["s1"].calculated
            /\ ~result'.value.cached
               => /\ NothingComputed'
                     <=> \/ ~sim'["s1"].cache
                         \/ (sim["s1"].run + 1) % sim["s1"].flush_after_run = 0
                  /\ sim'["s1"].cache
                     => sim'["s1"].run =
                          IF NothingComputed' THEN 0 ELSE sim["s1"].run + 1
            /\ (/\ NothingComputed
                /\ sim["s1"].run = 0
                /\ ~sim["s1"].array_inputs)
               => Gives(Compute(FreshWorld, "s1"), sim'["s1"].output)]_vars

\* with caching enabled and flush_after_run = 2, the second run has
\* completed, delivered its outputs and evicted the state
C14_Witness ==
    /\ result.op = "compute"
    /\ result.outcome = "ok"
    /\ ~result.value.cached
    /\ sim["s1"].cache
    /\ sim["s1"].flush_after_run = 2
    /\ sim["s1"].run = 0
    /\ NothingComputed
    /\ \A c \in Range(NetConsequents) : sim["s1"].output[c] # None

\* the compute() of s1 at hand ends with an eviction: caching is disabled
\* or the run is the flush_after_run-th
RunEvicts ==
    \/ ~sim'["s1"].cache
    \/ (sim["s1"].run + 1) % sim["s1"].flush_after_run = 0

\* the world when compute() has stored the outputs of the Consequents and
\* has not yet noted the run
Delivered == DefuzzAll(ComputeBegin(World, "s1"), NetConsequents, "s1", 1)

\* C15: an eviction, periodic or after a run with caching disabled, clears
\* all term memberships, firing strengths, activations and fingerprints of
\* the simulation and leaves its output map as the run delivered it
C15_EvictionKeepsOutputs ==
    [][(/\ result'.op = "compute"
        /\ result'.outcome = "ok"
        /\ ~result'.value.cached
        /\ RunEvicts)
         => /\ NothingComputed'
            /\ sim'["s1"].output = Delivered.sim["s1"].output
            /\ \A c \in Range(NetConsequents) : sim'["s1"].output[c] # None]_vars

\* a run with caching disabled has delivered its outputs and evicted the
\* state
C15_Witness ==
    /\ result.op = "compute"
    /\ result.outcome = "ok"
    /\ ~sim["s1"].cache
    /\ ~sim["s1"].array_inputs
    /\ NothingComputed
    /\ \A c \in Range(NetConsequents) : sim["s1"].output[c].k = "num"

\* in W simulation s1 holds nothing: no input, membership, firing
\* strength, activation, Consequent output or fingerprint; run counter 0
EmptyIn(W) ==
    /\ \A a \in Range(NetAntecedents) :
          W.input[a]["s1"] = None /\ W.input[a]["current"] = None
    /\ \A t \in NetTerms : W.mv[t]["s1"] = None
    /\ \A r \in NetRules : W.firing[r]["s1"] = None
    /\ \A c \in WeightedTerms : c[1] \in NetRules => W.act[c]["s1"] = None
    /\ \A c \in Range(NetConsequents) : W.out[c]["s1"] = None
    /\ W.sim["s1"].calculated = <<>>
    /\ W.sim["s1"].run = 0

\* s1.input[a] = value for every Antecedent as[i..] of the network
RECURSIVE AssignAll(_, _, _, _)
AssignAll(W, as, i, value) ==
    IF i > Len(as) THEN W
    ELSE AssignAll(SetInput(W, "s1", as[i], value), as, i + 1, value)

\* every input is assigned the value, then compute() is called
AssignAndCompute(W, value) ==
    Compute(AssignAll(W, NetAntecedents, 1, value), "s1")

\* a simulation just created on the network with s1's arguments
NewWorld ==
    [FreshWorld EXCEPT !.input = [a \in Antecedents |-> Cleared]]

\* compute() did the same on V and on W: same outcome, same outputs
SameResult(V, W) ==
    /\ Outcome(V) = Outcome(W)
    /\ V.sim["s1"].output = W.sim["s1"].output

\* the simulation after reset() is like one just created, given R, the
\* world that reset() leaves
FreshAfter(R) ==
    /\ Outcome(R) = "ok"
    /\ EmptyIn(R)
    /\ \A value \in {Num(2)} :
          SameResult(AssignAndCompute([R EXCEPT !.sim["s1"].output =
                                           NewWorld.sim["s1"].output], value),
                     AssignAndCompute(NewWorld, value))

\* C16: whatever the simulation has done, after reset() it holds nothing
\* (no input, membership, firing strength, activation or fingerprint; run
\* counter 0), and once every input is assigned again compute() returns
\* what it returns on a simulation just created
C16_ResetGivesFreshContext == FreshAfter(ResetSimulation(World, "s1"))

\* C17: set_input with a label that matches no Antecedent of the network
\* fails with UnknownInputError and changes nothing: the stored inputs,
\* the array flags, the fingerprint and everything else the simulation
\* and the network hold are as before
C17_UnknownInputChangesNothing ==
    [][(/\ result'.op = "set_input"
        /\ result'.value.key \notin Range(NetAntecedents))
         => /\ result'.outcome = "UnknownInputError"
            /\ UNCHANGED <<input, sim, mv, cuts, cut, firing, act, out, agg,
                           gen, graph>>]_vars

\* an assignment to an unknown label has failed on a simulation that holds
\* an input and has noted a run
C17_Witness ==
    /\ result.op = "set_input"
    /\ result.outcome = "UnknownInputError"
    /\ \E a \in Range(NetAntecedents) : input[a]["current"] # None
    /\ sim["s1"].calculated # <<>>

\* the value is a number or an array of numbers
Numeric(value) == value.k \in {"num", "arr"}

\* some number of the value lies outside the universe of Antecedent a
Outside(a, value) ==
    \E i \in DOMAIN value.v : value.v[i] > UMax(a) \/ value.v[i] < UMin(a)

\* the value with every number outside the universe of a replaced by the
\* nearest bound of the universe
Nearest(a, value) ==
    [value EXCEPT !.v = [i \in DOMAIN value.v |->
        IF value.v[i] > UMax(a) THEN UMax(a)
        ELSE IF value.v[i] < UMin(a) THEN UMin(a)
        ELSE value.v[i]]]

\* the step is s1.input[key] = value for an Antecedent of the network and
\* a numeric value outside its universe
OutsideAssigned ==
    /\ result'.op = "set_input"
    /\ result'.value.key \in Range(NetAntecedents)
    /\ Numeric(result'.value.value)
    /\ Outside(result'.value.key, result'.value.value)

\* the step leaves the inputs and the simulations as in W
LeavesAs(W) == input' = W.input /\ sim' = W.sim

\* C18: with clip_to_bounds = true, set_input with a numeric value outside
\* the Antecedent's universe does not raise and stores the nearest bound of
\* the universe; it behaves exactly like assigning that bound
C18_ClipStoresNearestBound ==
    [][(OutsideAssigned /\ sim["s1"].clip_to_bounds)
         => /\ result'.outcome = "ok"
            /\ input'[result'.value.key]["current"]
                 = Nearest(result'.value.key, result'.value.value)
            /\ LeavesAs(SetInput(World, "s1", result'.value.key,
                                 Nearest(result'.value.key,
                                         result'.value.value)))]_vars

\* a number below the universe has been assigned and its minimum stored
C18_Witness ==
    /\ result.op = "set_input"
    /\ result.outcome = "ok"
    /\ result.value.key \in Range(NetAntecedents)
    /\ result.value.value.k = "num"
    /\ NumOf(result.value.value) < UMin(result.value.key)
    /\ input[result.value.key]["current"] = Num(UMin(result.value.key))

\* C19: with clip_to_bounds = false, set_input with a numeric value
\* outside the Antecedent's universe raises OutOfBoundsError and leaves
\* the input stored for that Antecedent as it was, whatever was stored
C19_OutOfBoundsKeepsInput ==
    [][(OutsideAssigned /\ ~sim["s1"].clip_to_bounds)
         => /\ result'.outcome = "OutOfBoundsError"
            /\ input'[result'.value.key] = input[result'.value.key]]_vars

\* s1 holds a numeric input of another kind than the kind k
HoldsOtherKind(k) ==
    \E a \in Range(NetAntecedents) :
        Numeric(input[a]["s1"]) /\ input[a]["s1"].k # k

\* the step has reset s1 and stored at most the input of Antecedent key
ResetExcept(key) ==
    /\ \A a \in Range(NetAntecedents) \ {key} : input'[a]["s1"] = None
    /\ \A t \in NetTerms : mv'[t]["s1"] = None
    /\ sim'["s1"].calculated = <<>>
    /\ sim'["s1"].run = 0

\* the step has cleared nothing of s1
NothingCleared(key) ==
    /\ \A a \in Range(NetAntecedents) \ {key} : input'[a] = input[a]
    /\ mv' = mv
    /\ sim'["s1"].calculated = sim["s1"].calculated
    /\ sim'["s1"].run = sim["s1"].run

\* C20: set_input with a numeric value resets the simulation exactly when
\* the kind of the value differs from the kind of the numeric inputs the
\* simulation holds: a number after arrays, and an array after numbers
C20_ResetExactlyOnKindSwitch ==
    [][(/\ result'.op = "set_input"
        /\ result'.outcome = "ok"
        /\ Numeric(result'.value.value))
         => IF HoldsOtherKind(result'.value.value.k)
              THEN ResetExcept(result'.value.key)
              ELSE NothingCleared(result'.value.key)]_vars

(***************************************************************************)
(* Claims about defuzzification and introspection (under SpecLog)          *)
(***************************************************************************)
\* no term of Consequent c has a membership value for simulation s
NoMembership(c, s) == \A t \in Range(VarTerms[c]) : mv[t][s] = None

\* C21: defuzzifying a Consequent of which no term has a membership value
\* fails with EmptyMembershipError, with and without array inputs
C21_NothingFiredIsEmptyMembership ==
    [][(/\ result'.op = "defuzz"
        /\ NoMembership(result'.value.consequent, result'.arg))
         => result'.outcome = "EmptyMembershipError"]_vars

LogOps == {"print_state", "crispvalue", "dictionaries"}

\* C22: print_state and the dictionaries of LogStateControlSystemSimulation
\* are read-only: they change no stored input, term membership, firing
\* strength, activation, output, fingerprint or field of a network node
C22_IntrospectionReadOnly ==
    [][result'.op \in LogOps
         => UNCHANGED <<input, mv, cuts, firing, act, out, sim, graph, cut,
                        agg>>]_vars

(***************************************************************************)
(* Claims about the inference of one call (under SpecOne)                  *)
(***************************************************************************)
\* the weighted terms <<rule, i>> of the rules order[k..] that carry term t,
\* in the order compute_rule meets them
RECURSIVE WritesOf(_, _, _)
WritesOf(order, t, k) ==
    IF k > Len(order) THEN <<>>
    ELSE SelectSeq([i \in DOMAIN RuleDef[order[k]].consequent |-> <<order[k], i>>],
                   LAMBDA c : RuleDef[c[1]].consequent[c[2]].term = t)
         \o WritesOf(order, t, k + 1)

\* the accumulation of the activations A of the writes ws[k..] into acc
RECURSIVE FoldActivations(_, _, _, _, _)
FoldActivations(ws, A, s, k, acc) ==
    IF k > Len(ws) THEN acc
    ELSE FoldActivations(ws, A, s, k + 1,
                         IF acc = None THEN A[ws[k]][s]
                         ELSE Accumulate(A[ws[k]][s], acc))

FullRun == result'.op = "compute" /\ result'.outcome = "ok"
                                  /\ ~result'.value.cached

C24_CutsHoldOwnActivation ==
    [][(NothingComputed /\ FullRun) =>
         \A c \in WeightedTerms :
            c[1] \in NetRules =>
               cuts'[RuleDef[c[1]].consequent[c[2]].term]["s1"][RuleDef[c[1]].label]
                  = act'[c]["s1"]]_vars

(***************************************************************************)
(* Claims about the rule order cache (under SpecNet)                       *)
(***************************************************************************)
\* what _process_rules gives for the graph the ControlSystem holds now
OrderOfNetwork ==
    ProcessRules(nxLegacy, graph, GraphRules(graph), InitCalced(graph))

IteratedAs(pr) ==
    /\ (result'.outcome = "ok") <=> pr.ok
    /\ pr.ok => /\ result'.value.seq = pr.seq
                /\ gen' = [cache |-> pr.seq, cached_graph |-> graph.id]
    /\ ~pr.ok => gen' = gen
    /\ gen.cached_graph = graph.id => gen' = gen /\ result'.value.seq = gen.cache

\* C25: the rule order is recomputed exactly when the network is not the one
\* it was last computed for, and otherwise the cached sequence is returned:
\* every iteration gives the order of the network as it is now, also after
\* addrule and after an iteration that failed
C25_OrderCacheNeverStale ==
    [][result'.op = "rules" => IteratedAs(OrderOfNetwork)]_vars

\* an iteration that succeeded after two rules were added, the generator
\* having cached the order of the network before the second
C25_Witness ==
    /\ Iterated /\ result.outcome = "ok"
    /\ graph.id >= 3 /\ gen.cached_graph = graph.id
    /\ Len(gen.cache) >= 2

(***************************************************************************)
(* The layered algorithm the resolver is specified by: a rule is           *)
(* schedulable when every term its antecedent reads is ready and every     *)
(* rule of the network writing that term is scheduled; a round schedules   *)
(* all schedulable rules, first added first, and then makes their          *)
(* consequent terms ready.                                                 *)
(***************************************************************************)
Schedulable(all, ready, done, r) ==
    \A t \in AntecedentTerms(r) :
        /\ t \in ready
        /\ \A w \in Range(all) : t \in ConsequentTerms(w) => w \in Range(done)

WrittenBy(rs) == UNION {ConsequentTerms(rs[i]) : i \in DOMAIN rs}

RECURSIVE Layered(_, _, _, _)
Layered(all, rest, ready, done) ==
    IF rest = <<>> THEN [ok |-> TRUE, seq |-> done]
    ELSE \* LAMBDA keeps the round's choice in terms of the state before it
         IF SelectSeq(rest, LAMBDA r : Schedulable(all, ready, done, r)) = <<>>
           THEN [ok |-> FALSE, seq |-> <<>>]
         ELSE Layered(all,
                      SelectSeq(rest, LAMBDA r : ~Schedulable(all, ready, done, r)),
                      ready \cup WrittenBy(
                          SelectSeq(rest, LAMBDA r : Schedulable(all, ready, done, r))),
                      done \o SelectSeq(rest,
                                        LAMBDA r : Schedulable(all, ready, done, r)))

LayeredOrder(G) ==
    Layered(GraphRules(G), GraphRules(G),
            UNION {Range(VarTerms[a]) : a \in Range(GraphAntecedents(G))}, <<>>)

\* C26: with a networkx whose predecessors() is a list, the sequence the
\* resolver gives is the one of the layered algorithm: a round's rules in
\* first-added order, their consequent terms ready only after the round
C26_OrderIsLayered ==
    (Iterated /\ result.outcome = "ok" /\ nxLegacy) =>
        result.value.seq = LayeredOrder(graph).seq

\* the resolution of rules from calced ends within fuel further scans: a scan
\* that skips nothing returns, a scan that yields nothing raises, and any
\* other scan leaves strictly fewer rules for the recursive call
RECURSIVE EndsWithin(_, _, _, _, _)
EndsWithin(legacy, allGraph, rules, calced, fuel) ==
    \E scan \in {ScanRules(legacy, allGraph, rules, calced, <<>>, <<>>)} :
        IF scan.skipped = <<>> THEN TRUE
        ELSE IF scan.yielded = <<>>
          THEN ~AfterScan(rules, scan, [ok |-> TRUE, seq |-> <<>>, left |-> <<>>]).ok
        ELSE /\ Len(scan.skipped) < Len(rules)
             /\ fuel > 0
             /\ EndsWithin(legacy, allGraph, scan.skipped, scan.calced, fuel - 1)

\* C27: for every network, the rule ordering ends: each scan schedules at
\* least one rule, leaving strictly fewer for the next, or the resolution
\* stops with the cyclic dependency error; there are at most as many scans
\* as rules
C27_ResolverTerminates ==
    EndsWithin(nxLegacy, graph, GraphRules(graph), InitCalced(graph),
               Len(GraphRules(graph)))

\* an order that took a second scan to complete
C27_Witness ==
    /\ Iterated /\ result.outcome = "ok"
    /\ ScanRules(nxLegacy, graph, GraphRules(graph), InitCalced(graph),
                 <<>>, <<>>).skipped # <<>>

(***************************************************************************)
(* Claims about set_input and the switch between arrays and scalars        *)
(* (under SpecOne)                                                         *)
(***************************************************************************)
\* the step is s1.input[key] = value for an Antecedent of the network and
\* a numeric value of which every number lies in its universe
InsideAssigned ==
    /\ result'.op = "set_input"
    /\ result'.value.key \in Range(NetAntecedents)
    /\ Numeric(result'.value.value)
    /\ ~Outside(result'.value.key, result'.value.value)

\* C28: set_input with a number, or an array of numbers, inside the
\* Antecedent's universe does not raise and stores the value as given, with
\* and without clip_to_bounds and whatever the universe
C28_InBoundsStoredUnchanged ==
    [][InsideAssigned
         => /\ result'.outcome = "ok"
            /\ input'[result'.value.key]["s1"] = result'.value.value]_vars

\* s1 has been reset by the assignment of a scalar after arrays
\* ("self.sim._array_shape = False" is done nowhere else)
Switched == sim["s1"].array_shape = FalseV

\* a scalar assigned after the switch leaves the other inputs of s1 alone
KeepsOtherInputs ==
    (/\ Switched
     /\ result'.op = "set_input" /\ result'.outcome = "ok"
     /\ result'.value.value.k = "num")
       => \A a \in Range(NetAntecedents) \ {result'.value.key} :
             input'[a]["s1"] = input[a]["s1"]

\* compute() after the switch, every Antecedent holding a scalar, succeeds
\* and gives scalar outputs
ComputesScalars ==
    (/\ Switched
     /\ \A a \in Range(NetAntecedents) : input[a]["s1"].k = "num"
     /\ result'.op = "compute")
       => /\ result'.outcome = "ok"
          /\ \A c \in Range(NetConsequents) : sim'["s1"].output[c].k # "arr"

\* C29: once a scalar assigned after arrays has reset the context, the
\* context works on scalars again: further scalar assignments reset nothing
\* and are all retained, and compute() succeeds once every Antecedent holds
\* a scalar
C29_ScalarModeAfterSwitch == [][KeepsOtherInputs /\ ComputesScalars]_vars

(***************************************************************************)
(* Claims about the cache of a network that grows (under SpecGrow)         *)
(***************************************************************************)
\* a rule has just been added, and s1 has computed the inputs it holds
RuleAddedAfterCompute ==
    /\ result.op = "addrule" /\ result.outcome = "ok"
    /\ \E i \in DOMAIN sim["s1"].calculated :
          sim["s1"].calculated[i] = sim["s1"].unique_id

\* C30: a compute() that follows addrule, with the inputs of an earlier
\* compute(), gives what a simulation just created on the network as it is
\* now gives for these inputs where that succeeds, with a value for every
\* Consequent
C30_CacheFollowsNetwork ==
    [][(RuleAddedAfterCompute /\ result'.op = "compute")
         => \E F \in {Compute(FreshWorld, "s1")} :
               Outcome(F) = "ok"
                 => /\ result'.outcome = "ok"
                    /\ sim'["s1"].output = F.sim["s1"].output]_vars

(***************************************************************************)
(* Claims about the run counter and the fingerprints (under SpecOne)       *)
(***************************************************************************)
FailedCompute == result'.op = "compute" /\ result'.outcome # "ok"

\* C31: a compute() that fails records no fingerprint and does not advance
\* the run counter, and the compute() that follows it with the same inputs
\* runs the inference again
C31_FailedRunNotRecorded ==
    [][/\ FailedCompute
          => /\ \A i \in DOMAIN sim'["s1"].calculated :
                   sim'["s1"].calculated[i] # sim'["s1"].unique_id
             /\ sim'["s1"].calculated \in {sim["s1"].calculated, <<>>}
             /\ sim'["s1"].run <= sim["s1"].run
       /\ (/\ result.op = "compute" /\ result.outcome # "ok"
           /\ result'.op = "compute")
          => ~result'.value.cached]_vars

\* a compute() has failed in the loop over the Consequents, with caching
\* enabled and after a run that was recorded
C31_Witness ==
    /\ result.op = "compute"
    /\ result.outcome \in {"EmptyMembershipError", "DefuzzifyError"}
    /\ sim["s1"].cache
    /\ sim["s1"].run >= 1
    /\ sim["s1"].calculated # <<>>

\* C32: between the calls, the run counter of a simulation lies in
\* 0 .. flush_after_run - 1, its fingerprint history holds no fingerprint
\* twice, and the history is no longer than the run counter
C32_RunCounterAndHistory ==
    \A s \in Sims :
        /\ 0 <= sim[s].run /\ sim[s].run < sim[s].flush_after_run
        /\ \A i, j \in DOMAIN sim[s].calculated :
              sim[s].calculated[i] = sim[s].calculated[j] => i = j
        /\ Len(sim[s].calculated) <= sim[s].run

\* two runs with different inputs have been recorded, and a third
\* compute() has taken the cache shortcut
C32_Witness ==
    /\ result.op = "compute" /\ result.outcome = "ok" /\ result.value.cached
    /\ sim["s1"].run = 2
    /\ Len(sim["s1"].calculated) = 2

(***************************************************************************)
(* Claims about the introspection after a run (under SpecLog)              *)
(***************************************************************************)
\* C33: right after a compute() that returned, print_state and
\* LogStateControlSystemSimulation accept the simulation: they do not fail
\* with "Call compute method first"
C33_IntrospectionAfterCompute ==
    [][(/\ result.op = "compute" /\ result.outcome = "ok"
        /\ result'.op \in LogOps /\ result'.arg = result.arg)
         => result'.outcome = "ok"]_vars

==============================================================================
